---- MODULE Spec2Model ----
(***************************************************************************)
(* Model of memory-bot (src/bot.py): a Telegram bot that stores per-chat   *)
(* persons with birth and death dates and, once a day, sends each chat a   *)
(* reminder DAYS_BEFORE days ahead of every anniversary.                   *)
(*                                                                         *)
(* DateSpec drives the pure date functions (normalize_anniversary,         *)
(* is_anniversary_in_days) over consecutive days.  Spec drives the store,  *)
(* the command handlers, the daily cron job and send_reminders with its    *)
(* await points.  ParseSpec applies parse_date to drawn texts.  CmdSpec    *)
(* drives the command handlers with message texts and records their        *)
(* replies and return values.  TriggerSpec runs the scheduler, the job and *)
(* /list fairly over a table that no command writes to.                    *)
(***************************************************************************)
EXTENDS Integers, Sequences, FiniteSets, TLC

VARIABLES
    today,      \* the current local calendar day (datetime.now(TZ).date())
    orig,       \* DateSpec: the stored date under test (NoDate for None)
    lead,       \* DateSpec: days_ahead
    hits,       \* DateSpec: the trigger days on which the matcher returned True
    res,        \* DateSpec: the matcher's last evaluation
    norm,       \* DateSpec: the last normalize_anniversary evaluation
    phase,      \* Spec: "before" or "after" the cron time of `today`
    up,         \* Spec: whether the process is running
    store,      \* Spec: the rows of table persons
    seq,        \* Spec: sqlite_sequence of persons (AUTOINCREMENT)
    scans,      \* Spec: the running instances of job send_reminders
    outbox,     \* Spec: the calls of bot.send_message by today's and running scans
    lastFire,   \* Spec: what the last cron time did, and what was due then
    last,       \* ParseSpec, CmdSpec: the last call made and what came of it
    issued      \* Spec, CmdSpec: the ids add_person has returned, in order

vars == <<today, orig, lead, hits, res, norm, phase, up, store, seq, scans,
          outbox, lastFire, last, issued>>

dateVars == <<orig, lead, hits, res, norm>>
botVars == <<phase, up, store, seq, scans, outbox, lastFire>>
cmdVars == <<last, issued>>

----------------------------------------------------------------------------
(* Bounds *)

\* largest days_ahead DateSpec draws
MaxLead == 3
\* number of consecutive days DateSpec walks through
NumDays == 745
\* DateSpec normalizes into the years 2021 .. 2021 + YearSpan
YearSpan == 4

----------------------------------------------------------------------------
(* datetime.date *)

Date(y, m, d) == [year |-> y, month |-> m, day |-> d]

\* None, for an Optional[date]
NoDate == Date(0, 0, 0)

\* the outcome of a date operation that raised ValueError
ValueError == Date(-1, -1, -1)

IsLeap(y) == (y % 4 = 0) /\ ((y % 100 # 0) \/ (y % 400 = 0))

DaysInMonth(y, m) ==
    IF m = 2 THEN (IF IsLeap(y) THEN 29 ELSE 28)
    ELSE IF m \in {4, 6, 9, 11} THEN 30 ELSE 31

IsValidDate(y, m, d) ==
    /\ y >= 1
    /\ m \in 1..12
    /\ d >= 1
    /\ d <= DaysInMonth(y, m)

\* the day after d
NextDay(d) ==
    IF d.day < DaysInMonth(d.year, d.month) THEN Date(d.year, d.month, d.day + 1)
    ELSE IF d.month < 12 THEN Date(d.year, d.month + 1, 1)
    ELSE Date(d.year + 1, 1, 1)

RECURSIVE AddDays(_, _)
\* d + timedelta(days=n), n >= 0
AddDays(d, n) == IF n = 0 THEN d ELSE AddDays(NextDay(d), n - 1)

DaysBeforeYear(y) ==
    (y - 1) * 365 + ((y - 1) \div 4) - ((y - 1) \div 100) + ((y - 1) \div 400)

RECURSIVE DaysBeforeMonth(_, _)
DaysBeforeMonth(y, m) ==
    IF m = 1 THEN 0 ELSE DaysBeforeMonth(y, m - 1) + DaysInMonth(y, m - 1)

\* date.toordinal(): the proleptic Gregorian day number of d
ToOrdinal(d) == DaysBeforeYear(d.year) + DaysBeforeMonth(d.year, d.month) + d.day

\* d.replace(year=y)
ReplaceYear(d, y) ==
    IF IsValidDate(y, d.month, d.day) THEN Date(y, d.month, d.day) ELSE ValueError

----------------------------------------------------------------------------
(* The date functions of src/bot.py *)

\* a slip: the leap day moved forward to March 1 instead of back
normalize_anniversary_Mar1(d, year) ==
    LET r == ReplaceYear(d, year)
    IN  IF r # ValueError THEN r
        ELSE IF d.month = 2 /\ d.day = 29 THEN Date(year, 3, 1)
        ELSE ValueError

\* a slip: the except branch missing, so the ValueError escapes
normalize_anniversary_NoLeapPolicy(d, year) == ReplaceYear(d, year)

normalize_anniversary(d, year) ==
    LET r == ReplaceYear(d, year)
    IN  IF r # ValueError THEN r
        ELSE IF d.month = 2 /\ d.day = 29 THEN Date(year, 2, 28)
        ELSE ValueError

\* a slip: the month/day compared with today instead of today + days_ahead
is_anniversary_in_days_NoLead(d, day, days_ahead) ==
    IF d = NoDate THEN FALSE
    ELSE LET anniv == normalize_anniversary(d, day.year)
         IN  anniv.month = day.month /\ anniv.day = day.day

is_anniversary_in_days(d, day, days_ahead) ==
    IF d = NoDate THEN FALSE
    ELSE LET target == AddDays(day, days_ahead)
             anniv == normalize_anniversary(d, target.year)
         IN  anniv.month = target.month /\ anniv.day = target.day

----------------------------------------------------------------------------
(* str: a text is the sequence of its characters *)

Whitespace == {" ", "\t", "\n"}

DigitChars == <<"0", "1", "2", "3", "4", "5", "6", "7", "8", "9">>

IsDigit(c) == \E n \in 1..10 : DigitChars[n] = c

DigitVal(c) == (CHOOSE n \in 1..10 : DigitChars[n] = c) - 1

\* every character of s is a decimal digit
AllDigits(s) == \A i \in 1..Len(s) : IsDigit(s[i])

RECURSIVE Number(_)
\* int(s) of a text of decimal digits
Number(s) ==
    IF s = <<>> THEN 0
    ELSE 10 * Number(SubSeq(s, 1, Len(s) - 1)) + DigitVal(s[Len(s)])

\* c in s
Contains(s, c) == \E i \in 1..Len(s) : s[i] = c

RECURSIVE lstrip(_)
lstrip(s) == IF s # <<>> /\ Head(s) \in Whitespace THEN lstrip(Tail(s)) ELSE s

RECURSIVE rstrip(_)
rstrip(s) ==
    IF s # <<>> /\ s[Len(s)] \in Whitespace THEN rstrip(SubSeq(s, 1, Len(s) - 1))
    ELSE s

\* s.strip()
strip(s) == rstrip(lstrip(s))

RECURSIVE split(_, _)
\* s.split(sep) for a one-character sep: the fields between the separators
split(s, sep) ==
    IF ~Contains(s, sep) THEN <<s>>
    ELSE LET i == CHOOSE j \in 1..Len(s) :
                      s[j] = sep /\ \A k \in 1..(j - 1) : s[k] # sep
         IN  <<SubSeq(s, 1, i - 1)>> \o split(SubSeq(s, i + 1, Len(s)), sep)

\* s.replace(old, new) for one-character old and new
replace(s, old, new) == [i \in 1..Len(s) |-> IF s[i] = old THEN new ELSE s[i]]

----------------------------------------------------------------------------
(* datetime.strptime *)

\* the separator and the order of the directives of a format
FormatSep(format) == IF format = "%Y-%m-%d" THEN "-" ELSE "."

FormatFields(format) ==
    IF format = "%Y-%m-%d" THEN <<"Y", "m", "d">>
    ELSE IF format = "%d.%m.%Y" THEN <<"d", "m", "Y">>
    ELSE <<"m", "d", "Y">>

\* whether field s matches directive f: %Y is four digits; %m is 1..12 and
\* %d is 1..31 in one or two digits (%d also a space and one digit)
FieldMatches(f, s) ==
    IF f = "Y" THEN Len(s) = 4 /\ AllDigits(s)
    ELSE \/ /\ Len(s) \in {1, 2}
            /\ AllDigits(s)
            /\ Number(s) >= 1
            /\ Number(s) <= (IF f = "m" THEN 12 ELSE 31)
         \/ /\ f = "d"
            /\ Len(s) = 2
            /\ s[1] = " "
            /\ IsDigit(s[2])
            /\ s[2] # "0"

\* the number a matched field stands for
FieldValue(s) == IF s[1] = " " THEN Number(Tail(s)) ELSE Number(s)

\* datetime.strptime(s, format).date(), or ValueError when s does not
\* match the format or names no calendar day
strptime(s, format) ==
    LET parts == split(s, FormatSep(format))
        fields == FormatFields(format)
        At(f) == parts[CHOOSE i \in 1..3 : fields[i] = f]
    IN  IF Len(parts) # 3 THEN ValueError
        ELSE IF \E i \in 1..3 : ~FieldMatches(fields[i], parts[i]) THEN ValueError
        ELSE IF ~IsValidDate(FieldValue(At("Y")), FieldValue(At("m")),
                             FieldValue(At("d"))) THEN ValueError
        ELSE Date(FieldValue(At("Y")), FieldValue(At("m")), FieldValue(At("d")))

----------------------------------------------------------------------------
(* parse_date *)

\* a slip: the day-first form read month first
parse_date_MonthFirst(s) ==
    LET t == strip(s)
        iso == strptime(t, "%Y-%m-%d")
        dotted == strptime(t, "%m.%d.%Y")
    IN  IF t = <<>> THEN NoDate
        ELSE IF Contains(t, "-") THEN (IF iso # ValueError THEN iso ELSE NoDate)
        ELSE IF Contains(t, ".") THEN (IF dotted # ValueError THEN dotted ELSE NoDate)
        ELSE NoDate

\* parse_date(s): the date, or NoDate (None); the ValueError of strptime is
\* caught and passed over, so that None is returned for it as well
parse_date(s) ==
    LET t == strip(s)
        iso == strptime(t, "%Y-%m-%d")
        dotted == strptime(t, "%d.%m.%Y")
    IN  IF t = <<>> THEN NoDate
        ELSE IF Contains(t, "-") THEN (IF iso # ValueError THEN iso ELSE NoDate)
        ELSE IF Contains(t, ".") THEN (IF dotted # ValueError THEN dotted ELSE NoDate)
        ELSE NoDate

----------------------------------------------------------------------------
(* DateSpec: the date functions applied to drawn inputs.  A run draws a    *)
(* stored date and a lead time, then either normalizes the date into a     *)
(* drawn year or evaluates the matcher once per consecutive day.           *)

\* the first day of the walk
FirstDay == Date(2023, 12, 20)

\* the stored dates drawn: month ends, leap day, the days around them
OrigDates ==
    {Date(2000, m, d) : m \in {1, 2, 3, 12}, d \in {1, 4, 5, 28, 29, 31}}
    \cup {Date(1990, m, d) : m \in {1, 2}, d \in {1, 4, 5, 28, 29, 31}}

ValidOrigDates == {d \in OrigDates : IsValidDate(d.year, d.month, d.day)}

TargetYears == 2021..(2021 + YearSpan)

NoRes == [today |-> NoDate, target |-> NoDate, match |-> FALSE]
NoNorm == [year |-> 0, result |-> NoDate]

NoFire == [outcome |-> "none", due |-> {}]

\* no call made yet
NoCall == [op |-> "none"]

BotIdle ==
    /\ phase = "before"
    /\ up = FALSE
    /\ store = {}
    /\ seq = 0
    /\ scans = <<>>
    /\ outbox = <<>>
    /\ lastFire = NoFire

DateInit ==
    /\ today = FirstDay
    /\ orig \in ValidOrigDates \cup {NoDate}
    /\ lead \in 0..MaxLead
    /\ hits = {}
    /\ res = NoRes
    /\ norm = NoNorm
    /\ BotIdle
    /\ last = NoCall
    /\ issued = <<>>

\* normalize_anniversary(orig, year) for a drawn year
Normalize(year) ==
    /\ orig # NoDate
    /\ res = NoRes
    /\ norm = NoNorm
    /\ norm' = [year |-> year, result |-> normalize_anniversary(orig, year)]
    /\ UNCHANGED <<today, orig, lead, hits, res>>
    /\ UNCHANGED botVars
    /\ UNCHANGED cmdVars

\* is_anniversary_in_days(orig, today, lead) on the current day; then the
\* day passes
EvalDay ==
    /\ norm = NoNorm
    /\ ToOrdinal(today) - ToOrdinal(FirstDay) < NumDays
    /\ LET m == is_anniversary_in_days(orig, today, lead)
       IN  /\ res' = [today |-> today, target |-> AddDays(today, lead), match |-> m]
           /\ hits' = IF m THEN hits \cup {today} ELSE hits
    /\ today' = NextDay(today)
    /\ UNCHANGED <<orig, lead, norm>>
    /\ UNCHANGED botVars
    /\ UNCHANGED cmdVars

DateNext ==
    \/ \E year \in TargetYears : Normalize(year)
    \/ EvalDay

DateSpec == DateInit /\ [][DateNext]_vars

----------------------------------------------------------------------------
(* ParseSpec: parse_date applied to drawn texts *)

\* the zero-padded decimal text of n in `width` digits
Digits(n, width) ==
    [i \in 1..width |->
        LET p == width - i
            pow == IF p = 0 THEN 1 ELSE IF p = 1 THEN 10 ELSE IF p = 2 THEN 100 ELSE 1000
        IN  DigitChars[((n \div pow) % 10) + 1]]

\* the text YYYY-MM-DD of a date
TextYmd(d) == Digits(d.year, 4) \o <<"-">> \o Digits(d.month, 2) \o <<"-">> \o Digits(d.day, 2)

\* the text DD.MM.YYYY of a date
TextDmY(d) == Digits(d.day, 2) \o <<".">> \o Digits(d.month, 2) \o <<".">> \o Digits(d.year, 4)

\* the calendar dates whose texts are drawn: first and last years, leap and
\* common years, days below and above 12, month ends
ParseDates ==
    {dt \in {Date(y, mo, d) : y \in {1, 1999, 2000, 2024, 9999},
                              mo \in {1, 2, 9, 10, 12},
                              d \in {1, 2, 9, 10, 28, 29, 30, 31}} :
        IsValidDate(dt.year, dt.month, dt.day)}

\* whitespace put around a text
Paddings == {<<>>, <<" ">>, <<"\n", " ">>, <<"\t">>}

Padded(t) == {l \o t \o r : l \in Paddings, r \in Paddings}

\* texts that are empty, of another form, or name no calendar day, and
\* texts strptime accepts without zero padding
OddTexts ==
    { <<>>,
      <<" ">>,
      <<" ", "\n", "\t", " ">>,
      <<"2", "0", "2", "0", "/", "0", "1", "/", "0", "1">>,
      <<"2", "0", "2", "1", "-", "0", "2", "-", "3", "0">>,
      <<"3", "0", ".", "0", "2", ".", "2", "0", "2", "1">>,
      <<"2", "0", "2", "0", "0", "1", "0", "1">>,
      <<"2", "0", "2", "0", "-", "0", "1">>,
      <<"0", "1", ".", "0", "1", ".", "2", "0">>,
      <<"2", "0", "2", "0", "-", "1", "-", "5">>,
      <<"1", ".", "2", ".", "2", "0", "2", "0">>,
      <<"2", "0", "2", "0", "-", "0", "1", "-", "0", "1", ".">>,
      <<"0", "1", ".", "0", "1", ".", "2", "0", "2", "0", "-">>,
      <<"a", "b", "c">>,
      <<"0", "0", "0", "0", "-", "0", "1", "-", "0", "1">>,
      <<"2", "0", "2", "0", "-", "1", "3", "-", "0", "1">>,
      <<"2", "0", "2", "0", "-", "0", "0", "-", "1", "0">>,
      <<"3", "2", ".", "0", "1", ".", "2", "0", "2", "0">>,
      <<"2", "0", "2", "0", ".", "0", "1", ".", "0", "1">>,
      <<"0", "1", "-", "0", "1", "-", "2", "0", "2", "0">>,
      <<"2", "0", "2", "0", "-", "0", "1", "-", "0", "1", "-">>,
      <<"2", "0", "2", "0", "-", " ", "1", "-", "0", "5">>,
      <<"2", "0", "2", "0", "-", "0", "1", "-", " ", "5">>,
      <<" ", "5", ".", "0", "1", ".", "2", "0", "2", "0">>,
      <<"2", "0", "2", "0", "-", "0", "1", "-", "0", "1", "x">>,
      <<"0", "2", "-", "2", "9", "-", "2", "0", "2", "1">>,
      <<"2", "9", ".", "0", "2", ".", "2", "0", "2", "1">>,
      <<"2", "0", "2", "0", "-", "0", "1", "-", "0", "1", " ", "1", "0", ":", "0", "0">> }

ParseTexts ==
    UNION {Padded(TextYmd(d)) \cup Padded(TextDmY(d)) : d \in ParseDates}
    \cup OddTexts

\* a text is drawn to be parsed
ParseInit ==
    /\ today = FirstDay
    /\ orig = NoDate
    /\ lead = 0
    /\ hits = {}
    /\ res = NoRes
    /\ norm = NoNorm
    /\ BotIdle
    /\ last \in {[op |-> "text", text |-> s] : s \in ParseTexts}
    /\ issued = <<>>

\* the call parse_date(last.text): what was returned, and whether an error
\* came out of the call
ParseDate ==
    /\ last.op = "text"
    /\ last' = [op |-> "parse_date", text |-> last.text,
                ret |-> parse_date(last.text), raised |-> FALSE]
    /\ UNCHANGED <<today, orig, lead, hits, res, norm, issued>>
    /\ UNCHANGED botVars

ParseNext == ParseDate

ParseSpec == ParseInit /\ [][ParseNext]_vars

----------------------------------------------------------------------------
(* The record store: table persons of src/bot.py *)

\* days of lead time, DAYS_BEFORE (default)
DAYS_BEFORE == 3

\* at most MaxId rows are ever inserted
MaxId == 2
\* the bot is followed for MaxDays days after its first day
MaxDays == 1
\* the job runs at most MaxInstances at a time (APScheduler's default for
\* add_job without max_instances)
MaxInstances == 1

\* the chats that talk to the bot
Chats == {1, 2}

\* SQL NULL in a TEXT column
NULL == <<>>

\* date.isoformat(): the text "YYYY-MM-DD", as its three fields
isoformat(d) == <<d.year, d.month, d.day>>

\* datetime.strptime(text, "%Y-%m-%d").date()
strptime_iso(t) ==
    IF Len(t) = 3 /\ IsValidDate(t[1], t[2], t[3]) THEN Date(t[1], t[2], t[3])
    ELSE ValueError

\* the row add_person inserts (created_at, which nothing reads back but
\* the Person constructor, is left out)
Row(id, chat_id, full_name, birth, death) ==
    [id |-> id, chat_id |-> chat_id, full_name |-> full_name,
     birth |-> IF birth # NoDate THEN isoformat(birth) ELSE NULL,
     death |-> IF death # NoDate THEN isoformat(death) ELSE NULL]

\* Person built from a row by list_persons
Person(r) ==
    [id |-> r.id, chat_id |-> r.chat_id, full_name |-> r.full_name,
     birth |-> IF r.birth # NULL THEN strptime_iso(r.birth) ELSE NoDate,
     death |-> IF r.death # NULL THEN strptime_iso(r.death) ELSE NoDate]

\* the rows of S as the sequence ORDER BY id
OrderById(S) ==
    LET n == Cardinality(S)
    IN  CHOOSE s \in [1..n -> S] : \A i, j \in 1..n : i < j => s[i].id < s[j].id

\* a slip: the WHERE chat_id=? clause missing
list_persons_AllChats(db, chat_id) ==
    LET rows == OrderById(db) IN [i \in 1..Len(rows) |-> Person(rows[i])]

\* list_persons(chat_id) on database db
list_persons(db, chat_id) ==
    LET rows == OrderById({r \in db : r.chat_id = chat_id})
    IN  [i \in 1..Len(rows) |-> Person(rows[i])]

\* a slip: INTEGER PRIMARY KEY without AUTOINCREMENT, the rowid being one
\* more than the largest rowid in the table
NextId_MaxRowid(db, sq) ==
    IF db = {} THEN 1
    ELSE (CHOOSE i \in {r.id : r \in db} : \A r \in db : r.id <= i) + 1

\* the id INTEGER PRIMARY KEY AUTOINCREMENT gives the next row: one more
\* than the largest id the table ever held (sqlite_sequence)
NextId(db, sq) == sq + 1

\* a slip: the chat_id=? condition missing from the DELETE
remove_person_AnyChat(db, chat_id, pid) ==
    LET gone == {r \in db : r.id = pid}
    IN  [store |-> db \ gone, ret |-> gone # {}]

\* remove_person(chat_id, pid) on database db: DELETE FROM persons WHERE
\* chat_id=? AND id=?, returning rowcount > 0
remove_person(db, chat_id, pid) ==
    LET gone == {r \in db : r.chat_id = chat_id /\ r.id = pid}
    IN  [store |-> db \ gone, ret |-> gone # {}]

\* the possible results of all_chat_ids() on database db: the distinct
\* chat ids, in the order the SELECT DISTINCT happens to give
all_chat_ids(db) ==
    LET ids == {r.chat_id : r \in db}
        n == Cardinality(ids)
    IN  {s \in [1..n -> ids] : \A i, j \in 1..n : i # j => s[i] # s[j]}

----------------------------------------------------------------------------
(* send_reminders: the lines built for one chat *)

\* strftime('%d.%m') of a date
fmt_dm(d) == <<d.day, d.month>>

\* one formatted reminder line; pid is not part of the text, it records
\* which row the line was built from
Line(p, kind, anniv, years) ==
    [pid |-> p.id, full_name |-> p.full_name, kind |-> kind,
     date |-> fmt_dm(anniv), years |-> years]

\* a slip: elif instead of the second if, a record giving one line at most
EventLines_Elif(p, today_local, target) ==
    IF is_anniversary_in_days(p.birth, today_local, DAYS_BEFORE)
    THEN LET anniv == normalize_anniversary(p.birth, target.year)
         IN  <<Line(p, "birth", anniv, anniv.year - p.birth.year)>>
    ELSE IF is_anniversary_in_days(p.death, today_local, DAYS_BEFORE)
    THEN LET anniv == normalize_anniversary(p.death, target.year)
         IN  <<Line(p, "death", anniv, anniv.year - p.death.year)>>
    ELSE <<>>

\* a slip: the count taken from the scan day's year, not the target's
EventLines_TodayYear(p, today_local, target) ==
    (IF is_anniversary_in_days(p.birth, today_local, DAYS_BEFORE)
     THEN LET anniv == normalize_anniversary(p.birth, target.year)
          IN  <<Line(p, "birth", anniv, today_local.year - p.birth.year)>>
     ELSE <<>>)
    \o
    (IF is_anniversary_in_days(p.death, today_local, DAYS_BEFORE)
     THEN LET anniv == normalize_anniversary(p.death, target.year)
          IN  <<Line(p, "death", anniv, today_local.year - p.death.year)>>
     ELSE <<>>)

\* the lines of one person: the birth event, then the death event
EventLines(p, today_local, target) ==
    (IF is_anniversary_in_days(p.birth, today_local, DAYS_BEFORE)
     THEN LET anniv == normalize_anniversary(p.birth, target.year)
          IN  <<Line(p, "birth", anniv, anniv.year - p.birth.year)>>
     ELSE <<>>)
    \o
    (IF is_anniversary_in_days(p.death, today_local, DAYS_BEFORE)
     THEN LET anniv == normalize_anniversary(p.death, target.year)
          IN  <<Line(p, "death", anniv, anniv.year - p.death.year)>>
     ELSE <<>>)

RECURSIVE Messages(_, _, _)
\* the list `messages` after the loop over people
Messages(people, today_local, target) ==
    IF people = <<>> THEN <<>>
    ELSE EventLines(Head(people), today_local, target)
         \o Messages(Tail(people), today_local, target)

----------------------------------------------------------------------------
(* Spec: the running bot *)

\* the days on which the bot may be started
StartDays == {Date(2023, 12, 31), Date(2025, 2, 25)}

\* the days the model follows
Days == {AddDays(s, k) : s \in StartDays, k \in 0..MaxDays}

\* what parse_add_args may hand to cmd_add: the name field and the two
\* parse_date results (NoDate for an empty or unparseable field)
AddInputs ==
    { <<"A", Date(1990, 1, 4), Date(2001, 1, 4)>>,
      <<"A", Date(2000, 2, 29), Date(2010, 1, 3)>>,
      <<"", Date(1990, 1, 4), Date(2001, 1, 4)>>,
      <<"A", NoDate, Date(2001, 1, 4)>>,
      <<"A", Date(1990, 1, 4), NoDate>> }

Init ==
    /\ today \in StartDays
    /\ phase = "before"
    /\ up = TRUE
    /\ store = {}
    /\ seq = 0
    /\ scans = <<>>
    /\ outbox = <<>>
    /\ lastFire = NoFire
    /\ orig = NoDate
    /\ lead = DAYS_BEFORE
    /\ hits = {}
    /\ res = NoRes
    /\ norm = NoNorm
    /\ last = NoCall
    /\ issued = <<>>

\* every running instance notes that the store changed under it
Dirtied(ss) == [k \in 1..Len(ss) |-> [ss[k] EXCEPT !.dirty = TRUE]]

RemoveAt(ss, k) == SubSeq(ss, 1, k - 1) \o SubSeq(ss, k + 1, Len(ss))

\* cmd_add: parse_add_args rejected the text; an error reply, no insert
CmdAddRejected(chat_id, full_name, b, d) ==
    /\ up
    /\ full_name = "" \/ b = NoDate \/ d = NoDate
    /\ UNCHANGED vars

\* cmd_add with add_person: one row inserted under a fresh AUTOINCREMENT id
CmdAdd(chat_id, full_name, b, d) ==
    /\ up
    /\ full_name # "" /\ b # NoDate /\ d # NoDate
    /\ seq < MaxId
    /\ LET pid == NextId(store, seq)
       IN  /\ store' = store \cup {Row(pid, chat_id, full_name, b, d)}
           /\ seq' = IF pid > seq THEN pid ELSE seq
           /\ issued' = Append(issued, pid)
    /\ scans' = Dirtied(scans)
    /\ UNCHANGED <<today, phase, up, outbox, lastFire, last>>
    /\ UNCHANGED dateVars

\* cmd_remove with remove_person: DELETE ... WHERE chat_id=? AND id=?
CmdRemove(chat_id, pid) ==
    /\ up
    /\ LET rm == remove_person(store, chat_id, pid)
       IN  /\ store' = rm.store
           /\ scans' = IF rm.ret THEN Dirtied(scans) ELSE scans
    /\ UNCHANGED <<today, phase, up, seq, outbox, lastFire>>
    /\ UNCHANGED dateVars
    /\ UNCHANGED cmdVars

\* a slip: no limit on the running instances of the job
CanStart_NoLimit(n) == TRUE

\* the executor's check before it runs the job (max_instances)
CanStart(n) == n < MaxInstances

\* send_reminders up to its first await
NewScan ==
    [pc |-> "all_chat_ids", today_local |-> today,
     target |-> AddDays(today, DAYS_BEFORE), chats |-> <<>>, i |-> 0,
     messages |-> <<>>, read |-> {}, dirty |-> FALSE]

Kinds == {"birth", "death"}

\* the stored date of the given kind of row r, as list_persons reads it
DateOf(r, kind) == IF kind = "birth" THEN Person(r).birth ELSE Person(r).death

\* the (row, kind) pairs of database db whose anniversary is DAYS_BEFORE
\* days after `day`
Due(db, day) ==
    {o \in [pid : {r.id : r \in db}, kind : Kinds] :
        \E r \in db : /\ r.id = o.pid
                       /\ is_anniversary_in_days(DateOf(r, o.kind), day, DAYS_BEFORE)}

\* the cron time of the day comes: the job is run, or skipped because an
\* instance is still running, or missed because the process is down
CronTime ==
    /\ phase = "before"
    /\ phase' = "after"
    /\ IF ~up
       THEN /\ lastFire' = [outcome |-> "missed", due |-> Due(store, today)]
            /\ scans' = scans
       ELSE IF CanStart(Len(scans))
            THEN /\ lastFire' = [outcome |-> "run", due |-> Due(store, today)]
                 /\ scans' = Append(scans, NewScan)
            ELSE /\ lastFire' = [outcome |-> "skipped", due |-> Due(store, today)]
                 /\ scans' = scans
    /\ UNCHANGED <<today, up, store, seq, outbox>>
    /\ UNCHANGED dateVars
    /\ UNCHANGED cmdVars

\* midnight; outbox keeps the calls of the scans that are not over
DayPasses ==
    /\ phase = "after"
    /\ NextDay(today) \in Days
    /\ today' = NextDay(today)
    /\ phase' = "before"
    /\ LET StillRunning(call) ==
               \E k \in 1..Len(scans) : scans[k].today_local = call.scan
       IN  outbox' = SelectSeq(outbox, StillRunning)
    /\ UNCHANGED <<up, store, seq, scans, lastFire>>
    /\ UNCHANGED dateVars
    /\ UNCHANGED cmdVars

\* the scan moves to its next chat, or ends
Advance(sc) ==
    IF sc.i < Len(sc.chats)
    THEN [sc EXCEPT !.pc = "list_persons", !.i = sc.i + 1, !.messages = <<>>,
                    !.read = {}]
    ELSE [sc EXCEPT !.pc = "done", !.messages = <<>>, !.read = {}]

\* chats = await all_chat_ids()
ScanAllChatIds(k) ==
    /\ up
    /\ scans[k].pc = "all_chat_ids"
    /\ \E chats \in all_chat_ids(store) :
          scans' = [scans EXCEPT ![k] = Advance([scans[k] EXCEPT !.chats = chats])]
    /\ UNCHANGED <<today, phase, up, store, seq, outbox, lastFire>>
    /\ UNCHANGED dateVars
    /\ UNCHANGED cmdVars

\* people = await list_persons(chat_id), and the loop building messages
ScanListPersons(k) ==
    /\ up
    /\ scans[k].pc = "list_persons"
    /\ LET sc == scans[k]
           people == list_persons(store, sc.chats[sc.i])
           messages == Messages(people, sc.today_local, sc.target)
           rd == [sc EXCEPT !.messages = messages,
                            !.read = {r \in store : r.chat_id = sc.chats[sc.i]}]
       IN  scans' = [scans EXCEPT ![k] =
                        IF messages # <<>> THEN [rd EXCEPT !.pc = "send"]
                        ELSE Advance(rd)]
    /\ UNCHANGED <<today, phase, up, store, seq, outbox, lastFire>>
    /\ UNCHANGED dateVars
    /\ UNCHANGED cmdVars

\* a slip: the rows a delivered message was built from are deleted
ScanSend_DeletesSent(k, ok) ==
    /\ up
    /\ scans[k].pc = "send"
    /\ LET sc == scans[k]
       IN  /\ outbox' = Append(outbox, [scan |-> sc.today_local,
                                        chat_id |-> sc.chats[sc.i],
                                        lines |-> sc.messages, ok |-> ok])
           /\ scans' = [scans EXCEPT ![k] =
                           IF ok THEN Advance(sc) ELSE [sc EXCEPT !.pc = "failed"]]
           /\ store' = IF ok THEN store \ sc.read ELSE store
    /\ UNCHANGED <<today, phase, up, seq, lastFire>>
    /\ UNCHANGED dateVars
    /\ UNCHANGED cmdVars

\* await bot.send_message(chat_id, ...): delivered, or raising, which
\* nothing in send_reminders catches
ScanSend(k, ok) ==
    /\ up
    /\ scans[k].pc = "send"
    /\ LET sc == scans[k]
       IN  /\ outbox' = Append(outbox, [scan |-> sc.today_local,
                                        chat_id |-> sc.chats[sc.i],
                                        lines |-> sc.messages, ok |-> ok])
           /\ scans' = [scans EXCEPT ![k] =
                           IF ok THEN Advance(sc) ELSE [sc EXCEPT !.pc = "failed"]]
    /\ UNCHANGED <<today, phase, up, store, seq, lastFire>>
    /\ UNCHANGED dateVars
    /\ UNCHANGED cmdVars

\* a slip: the instance of a job that raised is never released
JobDone_OnlyReturned(k) ==
    /\ up
    /\ scans[k].pc = "done"
    /\ scans' = RemoveAt(scans, k)
    /\ UNCHANGED <<today, phase, up, store, seq, outbox, lastFire>>
    /\ UNCHANGED dateVars
    /\ UNCHANGED cmdVars

\* the executor notes that the job's coroutine returned or raised
JobDone(k) ==
    /\ up
    /\ scans[k].pc \in {"done", "failed"}
    /\ scans' = RemoveAt(scans, k)
    /\ UNCHANGED <<today, phase, up, store, seq, outbox, lastFire>>
    /\ UNCHANGED dateVars
    /\ UNCHANGED cmdVars

\* the process stops; a running scan dies with it, the database stays
Crash ==
    /\ up
    /\ up' = FALSE
    /\ scans' = <<>>
    /\ UNCHANGED <<today, phase, store, seq, outbox, lastFire>>
    /\ UNCHANGED dateVars
    /\ UNCHANGED cmdVars

\* main(): init_db (CREATE TABLE IF NOT EXISTS), scheduler_start, polling
Start ==
    /\ ~up
    /\ up' = TRUE
    /\ UNCHANGED <<today, phase, store, seq, scans, outbox, lastFire>>
    /\ UNCHANGED dateVars
    /\ UNCHANGED cmdVars

Next ==
    \/ \E c \in Chats, a \in AddInputs : CmdAddRejected(c, a[1], a[2], a[3])
    \/ \E c \in Chats, a \in AddInputs : CmdAdd(c, a[1], a[2], a[3])
    \/ \E c \in Chats, pid \in 1..MaxId : CmdRemove(c, pid)
    \/ CronTime
    \/ DayPasses
    \/ \E k \in 1..Len(scans) : ScanAllChatIds(k)
    \/ \E k \in 1..Len(scans) : ScanListPersons(k)
    \/ \E k \in 1..Len(scans), ok \in BOOLEAN : ScanSend(k, ok)
    \/ \E k \in 1..Len(scans) : JobDone(k)
    \/ Crash
    \/ Start

Spec == Init /\ [][Next]_vars

----------------------------------------------------------------------------
(* The command handlers on message texts *)

RECURSIVE split_ws(_)
\* s.split(): the runs of characters that are not whitespace
split_ws(s) ==
    LET t == lstrip(s)
    IN  IF t = <<>> THEN <<>>
        ELSE IF \A i \in 1..Len(t) : t[i] \notin Whitespace THEN <<t>>
        ELSE LET i == CHOOSE j \in 1..Len(t) :
                          t[j] \in Whitespace /\ \A k \in 1..(j - 1) : t[k] \notin Whitespace
             IN  <<SubSeq(t, 1, i - 1)>> \o split_ws(SubSeq(t, i + 1, Len(t)))

\* text.split(" ", 1)[1] if " " in text else ""
Payload(text) ==
    IF ~Contains(text, " ") THEN <<>>
    ELSE LET i == CHOOSE j \in 1..Len(text) :
                      text[j] = " " /\ \A k \in 1..(j - 1) : text[k] # " "
         IN  SubSeq(text, i + 1, Len(text))

\* s.isdigit(): not empty, and every character a digit; the superscript
\* digits count as digits here
isdigit(s) == s # <<>> /\ \A i \in 1..Len(s) : IsDigit(s[i]) \/ s[i] = "²"

\* whether int(s) raises ValueError: it does for a superscript digit
IntRaises(s) == s = <<>> \/ ~AllDigits(s)

\* a slip: the check of the name missing
parse_add_args_NoNameCheck(text) ==
    LET payload == Payload(text)
        fields == split(replace(payload, "\n", ";"), ";")
        parts == [i \in 1..Len(fields) |-> strip(fields[i])]
        raise(why) == [raised |-> TRUE, why |-> why]
    IN  IF payload = <<>> THEN raise("payload")
        ELSE IF Len(parts) < 3 THEN raise("fields")
        ELSE IF parse_date(parts[2]) = NoDate \/ parse_date(parts[3]) = NoDate
             THEN raise("dates")
        ELSE [raised |-> FALSE, full_name |-> parts[1],
              b |-> parse_date(parts[2]), d |-> parse_date(parts[3])]

\* parse_add_args(text): the three values returned, or the ValueError
\* raised
parse_add_args(text) ==
    LET payload == Payload(text)
        fields == split(replace(payload, "\n", ";"), ";")
        parts == [i \in 1..Len(fields) |-> strip(fields[i])]
        raise(why) == [raised |-> TRUE, why |-> why]
    IN  IF payload = <<>> THEN raise("payload")
        ELSE IF Len(parts) < 3 THEN raise("fields")
        ELSE IF parts[1] = <<>> THEN raise("name")
        ELSE IF parse_date(parts[2]) = NoDate \/ parse_date(parts[3]) = NoDate
             THEN raise("dates")
        ELSE [raised |-> FALSE, full_name |-> parts[1],
              b |-> parse_date(parts[2]), d |-> parse_date(parts[3])]

\* the call handled last: the handler, the chat, the text, the table as it
\* was before, the message.answer calls made, what the store call returned
\* (if one was made) and whether an exception left the handler
Handled(op, chat_id, text, replies, ret, raised) ==
    [op |-> op, chat_id |-> chat_id, text |-> text, before |-> store,
     replies |-> replies, ret |-> ret, raised |-> raised]

\* cmd_add: parse_add_args fails and the error is answered, or add_person
\* inserts the row and its id is answered
cmd_add(chat_id, text) ==
    /\ up
    /\ LET a == parse_add_args(text)
       IN  IF a.raised
           THEN /\ last' = Handled("add", chat_id, text,
                                   <<[kind |-> "error", why |-> a.why]>>, <<>>, FALSE)
                /\ UNCHANGED <<store, seq, issued>>
           ELSE /\ seq < MaxId
                /\ LET pid == NextId(store, seq)
                   IN  /\ store' = store \cup
                                     {Row(pid, chat_id, strip(a.full_name), a.b, a.d)}
                       /\ seq' = IF pid > seq THEN pid ELSE seq
                       /\ issued' = Append(issued, pid)
                       /\ last' = Handled("add", chat_id, text,
                                          <<[kind |-> "added", pid |-> pid]>>,
                                          <<pid>>, FALSE)
    /\ UNCHANGED <<today, phase, up, scans, outbox, lastFire>>
    /\ UNCHANGED dateVars

\* cmd_list: list_persons, and one answer
cmd_list(chat_id, text) ==
    /\ up
    /\ LET people == list_persons(store, chat_id)
       IN  last' = Handled("list", chat_id, text,
                           IF people = <<>> THEN <<[kind |-> "empty"]>>
                           ELSE <<[kind |-> "list", people |-> people]>>,
                           <<people>>, FALSE)
    /\ UNCHANGED <<today, phase, up, store, seq, scans, outbox, lastFire, issued>>
    /\ UNCHANGED dateVars

\* cmd_remove: the usage answer, or int() failing, or remove_person and
\* the answer that tells its result
cmd_remove(chat_id, text) ==
    /\ up
    /\ LET parts == split_ws(text)
       IN  IF Len(parts) # 2 \/ ~isdigit(parts[2])
           THEN /\ last' = Handled("remove", chat_id, text, <<[kind |-> "usage"]>>,
                                   <<>>, FALSE)
                /\ store' = store
           ELSE IF IntRaises(parts[2])
           THEN /\ last' = Handled("remove", chat_id, text, <<>>, <<>>, TRUE)
                /\ store' = store
           ELSE LET rm == remove_person(store, chat_id, Number(parts[2]))
                IN  /\ store' = rm.store
                    /\ last' = Handled("remove", chat_id, text,
                                       <<[kind |-> IF rm.ret THEN "removed"
                                                   ELSE "not_found"]>>,
                                       <<rm.ret>>, FALSE)
    /\ UNCHANGED <<today, phase, up, seq, scans, outbox, lastFire, issued>>
    /\ UNCHANGED dateVars

----------------------------------------------------------------------------
(* CmdSpec: the handlers applied to drawn message texts *)

\* texts of /add: complete ones, in both date forms, with newlines for
\* separators, with a fourth field; and ones lacking the payload, a field,
\* the name or a date, or with a date that does not parse
AddTexts ==
    { <<"/", "a", "d", "d", " ", "A", ";", " ", "1", "9", "9", "0", "-", "0", "1", "-", "0", "4", ";", " ", "0", "4", ".", "0", "1", ".", "2", "0", "0", "1">>,
      <<"/", "a", "d", "d", " ", "B", " ", "C", ";", "2", "9", ".", "0", "2", ".", "2", "0", "0", "0", ";", "2", "0", "1", "0", "-", "0", "1", "-", "0", "3">>,
      <<"/", "a", "d", "d", " ", "A", "\n", "1", "9", "9", "0", "-", "0", "1", "-", "0", "4", "\n", "2", "0", "0", "1", "-", "0", "1", "-", "0", "4">>,
      <<"/", "a", "d", "d", " ", " ", "A", " ", ";", "1", "9", "9", "0", "-", "0", "1", "-", "0", "4", ";", "2", "0", "0", "1", "-", "0", "1", "-", "0", "4", ";", " ", "x">>,
      <<"/", "a", "d", "d">>,
      <<"/", "a", "d", "d", " ">>,
      <<"/", "a", "d", "d", " ", "A", ";", " ", "1", "9", "9", "0", "-", "0", "1", "-", "0", "4">>,
      <<"/", "a", "d", "d", " ", ";", " ", "1", "9", "9", "0", "-", "0", "1", "-", "0", "4", ";", " ", "2", "0", "0", "1", "-", "0", "1", "-", "0", "4">>,
      <<"/", "a", "d", "d", " ", " ", " ", ";", "1", "9", "9", "0", "-", "0", "1", "-", "0", "4", ";", "2", "0", "0", "1", "-", "0", "1", "-", "0", "4">>,
      <<"/", "a", "d", "d", " ", ";", ";">>,
      <<"/", "a", "d", "d", " ", "\n", "\n">>,
      <<"/", "a", "d", "d", " ", "A", ";", " ", "2", "0", "2", "1", "-", "0", "2", "-", "3", "0", ";", " ", "2", "0", "0", "1", "-", "0", "1", "-", "0", "4">>,
      <<"/", "a", "d", "d", " ", "A", ";", " ", "1", "9", "9", "0", "-", "0", "1", "-", "0", "4", ";", " ", "2", "0", "2", "0", "/", "0", "1", "/", "0", "1">>,
      <<"/", "a", "d", "d", " ", "A", ";", " ", ";", " ", "2", "0", "0", "1", "-", "0", "1", "-", "0", "4">>,
      <<"/", "a", "d", "d", " ", "A", ";", " ", "1", "9", "9", "0", "-", "0", "1", "-", "0", "4", ";", " ">>,
      <<"/", "a", "d", "d", " ", "A", ";", " ", ";", " ">> }

\* /remove with the id n
RemoveText(n) == <<"/", "r", "e", "m", "o", "v", "e", " ">> \o Digits(n, 1)

\* texts of /remove: with ids that were or were not given out, and ones
\* lacking the id or with something else in its place
RemoveTexts ==
    {RemoveText(n) : n \in 1..(MaxId + 1)}
    \cup { <<"/", "r", "e", "m", "o", "v", "e">>,
           <<"/", "r", "e", "m", "o", "v", "e", " ">>,
           <<"/", "r", "e", "m", "o", "v", "e", " ", "x">>,
           <<"/", "r", "e", "m", "o", "v", "e", " ", "1", " ", "2">>,
           <<"/", "r", "e", "m", "o", "v", "e", " ", "-", "1">>,
           <<"/", "r", "e", "m", "o", "v", "e", " ", "1", ".", "0">>,
           <<"/", "r", "e", "m", "o", "v", "e", " ", " ", "0", "1", "\n">>,
           <<"/", "r", "e", "m", "o", "v", "e", " ", "²">> }

ListText == <<"/", "l", "i", "s", "t">>

CmdInit ==
    /\ today = FirstDay
    /\ orig = NoDate
    /\ lead = 0
    /\ hits = {}
    /\ res = NoRes
    /\ norm = NoNorm
    /\ phase = "before"
    /\ up = TRUE
    /\ store = {}
    /\ seq = 0
    /\ scans = <<>>
    /\ outbox = <<>>
    /\ lastFire = NoFire
    /\ last = NoCall
    /\ issued = <<>>

CmdNext ==
    \/ \E c \in Chats, t \in AddTexts : cmd_add(c, t)
    \/ \E c \in Chats, t \in RemoveTexts : cmd_remove(c, t)
    \/ \E c \in Chats : cmd_list(c, ListText)

CmdSpec == CmdInit /\ [][CmdNext]_vars

----------------------------------------------------------------------------
(* TriggerSpec: the scheduler and the job, fairly run *)

\* the event loop runs every coroutine that can go on, and the executor's
\* done callback of every job instance that ended
Fairness ==
    /\ WF_vars(\E k \in 1..Len(scans) : ScanAllChatIds(k))
    /\ WF_vars(\E k \in 1..Len(scans) : ScanListPersons(k))
    /\ WF_vars(\E k \in 1..Len(scans), ok \in BOOLEAN : ScanSend(k, ok))
    /\ WF_vars(\E k \in 1..Len(scans) : JobDone(k))

\* TriggerSpec: the scheduler, the job and /list over a table that
\* earlier /add commands filled with up to two rows, one per chat; no
\* command that writes arrives meanwhile
TriggerRows ==
    <<Row(1, 1, "A", Date(2000, 2, 29), Date(2010, 1, 3)),
      Row(2, 2, "A", Date(1990, 1, 4), Date(2010, 1, 3))>>

TriggerInit ==
    /\ today \in StartDays
    /\ phase = "before"
    /\ up = TRUE
    /\ \E n \in 0..Len(TriggerRows) :
          /\ store = {TriggerRows[i] : i \in 1..n}
          /\ seq = n
          /\ issued = [i \in 1..n |-> i]
    /\ scans = <<>>
    /\ outbox = <<>>
    /\ lastFire = NoFire
    /\ orig = NoDate
    /\ lead = DAYS_BEFORE
    /\ hits = {}
    /\ res = NoRes
    /\ norm = NoNorm
    /\ last = NoCall

TriggerNext ==
    \/ CronTime
    \/ DayPasses
    \/ \E k \in 1..Len(scans) : ScanAllChatIds(k)
    \/ \E k \in 1..Len(scans) : ScanListPersons(k)
    \/ \E k \in 1..Len(scans), ok \in BOOLEAN : ScanSend(k, ok)
    \/ \E k \in 1..Len(scans) : JobDone(k)
    \/ Crash
    \/ Start
    \/ \E c \in Chats : cmd_list(c, ListText)

TriggerSpec == TriggerInit /\ [][TriggerNext]_vars /\ Fairness

----------------------------------------------------------------------------
(* Claims about the date functions (checked under DateSpec) *)

\* the anniversary of the stored date in year y, as the specification
\* defines it: the same month and day, February 29 falling back to
\* February 28 in a year that is not a leap year
AnnivIn(y) ==
    IF orig.month = 2 /\ orig.day = 29 /\ ~IsLeap(y) THEN Date(y, 2, 28)
    ELSE Date(y, orig.month, orig.day)

\* the trigger days matched so far whose target day lies in year y
HitsIn(y) ==
    {h \in hits : /\ ToOrdinal(h) + lead >= ToOrdinal(Date(y, 1, 1))
                  /\ ToOrdinal(h) + lead <= ToOrdinal(Date(y, 12, 31))}

\* the years whose anniversaries the walk can meet
WalkYears == 2023..2026

\* C1: evaluated once per consecutive day, the matcher returns True on at
\* most one day per target year; that day is exactly `lead` days before the
\* anniversary in that year; and once the walk has passed that day (having
\* started no later than it) the day has been matched: exactly one hit.
C1_OncePerYear ==
    orig # NoDate =>
        \A y \in WalkYears :
            /\ Cardinality(HitsIn(y)) <= 1
            /\ \A h \in HitsIn(y) : ToOrdinal(h) + lead = ToOrdinal(AnnivIn(y))
            /\ ( /\ ToOrdinal(FirstDay) + lead <= ToOrdinal(AnnivIn(y))
                 /\ ToOrdinal(today) + lead > ToOrdinal(AnnivIn(y)) )
               => Cardinality(HitsIn(y)) = 1

\* C1 witness: February 29 matched once for leap 2024 and once for 2025,
\* three days ahead each time
C1_Witness ==
    /\ orig = Date(2000, 2, 29)
    /\ lead = 3
    /\ hits = {Date(2024, 2, 26), Date(2025, 2, 25)}
    /\ today = Date(2025, 12, 31)

\* C4: the matcher returns False for an absent date; otherwise the target is
\* the calendar day `lead` days after today and the result is True exactly
\* when the anniversary in the target's year has the target's month and day.
\* On 2024-01-01 with lead 3, January 4 matches and January 5 does not.
C4_MatchIffTargetDay ==
    res # NoRes =>
        /\ IsValidDate(res.target.year, res.target.month, res.target.day)
        /\ ToOrdinal(res.target) = ToOrdinal(res.today) + lead
        /\ orig = NoDate => ~res.match
        /\ orig # NoDate =>
              LET anniv == normalize_anniversary(orig, res.target.year)
              IN  res.match <=> ( /\ anniv.month = res.target.month
                                  /\ anniv.day = res.target.day )
        /\ (res.today = Date(2024, 1, 1) /\ lead = 3) =>
              /\ (orig.month = 1 /\ orig.day = 4) => res.match
              /\ (orig.month = 1 /\ orig.day = 5) => ~res.match

\* C4 witness: the specification's example, matched across a lead of 3
C4_Witness ==
    /\ res.today = Date(2024, 1, 1)
    /\ lead = 3
    /\ orig = Date(1990, 1, 4)
    /\ res.target = Date(2024, 1, 4)
    /\ res.match

\* C5: normalize_anniversary(d, Y) does not fail and returns (Y, d.month,
\* d.day), except that February 29 gives February 28 of Y when Y is not a
\* leap year (and February 29 of Y when it is).
C5_NormalizePolicy ==
    norm # NoNorm =>
        /\ norm.result # ValueError
        /\ norm.result.year = norm.year
        /\ IF orig.month = 2 /\ orig.day = 29
           THEN /\ norm.result.month = 2
                /\ norm.result.day = (IF IsLeap(norm.year) THEN 29 ELSE 28)
           ELSE /\ norm.result.month = orig.month
                /\ norm.result.day = orig.day

\* C5 witness: anniversaryIn(Feb-29-2000, 2021) = Feb-28-2021
C5_Witness ==
    /\ orig = Date(2000, 2, 29)
    /\ norm = [year |-> 2021, result |-> Date(2021, 2, 28)]

----------------------------------------------------------------------------
(* Claims about the running bot (checked under Spec) *)

\* the positions of the lines of call c that are about row pid and kind
LinesAbout(c, pid, kind) ==
    {j \in 1..Len(c.lines) : c.lines[j].pid = pid /\ c.lines[j].kind = kind}

\* how many delivered lines announce the anniversary of (pid, kind) that
\* was due DAYS_BEFORE days after `day`
Emitted(pid, kind, day) ==
    Cardinality(UNION {{<<n, j>> : j \in LinesAbout(outbox[n], pid, kind)} :
                          n \in {m \in 1..Len(outbox) :
                                    outbox[m].ok /\ outbox[m].scan = day}})

\* the calls of send_message the scan of `day` made for chat c
CallsTo(c, day) ==
    {n \in 1..Len(outbox) : outbox[n].scan = day /\ outbox[n].chat_id = c}

\* scan sc has ended, by returning or by raising, and no command changed
\* the store while it ran
EndedClean(sc) == sc.pc \in {"done", "failed"} /\ ~sc.dirty

\* C2: once the day's cron time is past and no scan is running, every
\* occurrence that was due at the cron time (its record still stored) has
\* been announced by exactly one delivered line.
C2_ExactlyOnePerOccurrence ==
    (phase = "after" /\ scans = <<>>) =>
        \A o \in lastFire.due :
            (\E r \in store : r.id = o.pid) => Emitted(o.pid, o.kind, today) = 1

\* C3: when a scan has ended, every chat it listed that has a matching
\* record received its delivery call, also after a delivery to another chat
\* failed.
C3_FailureDoesNotAbort ==
    \A k \in 1..Len(scans) :
        EndedClean(scans[k]) =>
            \A n \in 1..Len(scans[k].chats) :
                LET c == scans[k].chats[n]
                IN  (\E o \in Due(store, scans[k].today_local) :
                        \E r \in store : r.id = o.pid /\ r.chat_id = c)
                    => CallsTo(c, scans[k].today_local) # {}

\* C6: in an ended scan every chat with a matching record got exactly one
\* delivery call, every chat without one got none, and no call carried an
\* empty message.
C6_OneCallPerMatchingOwner ==
    /\ \A n \in 1..Len(outbox) : outbox[n].lines # <<>>
    /\ \A k \in 1..Len(scans) :
          EndedClean(scans[k]) =>
              \A c \in Chats :
                  Cardinality(CallsTo(c, scans[k].today_local)) =
                      IF \E o \in Due(store, scans[k].today_local) :
                            \E r \in store : r.id = o.pid /\ r.chat_id = c
                      THEN 1 ELSE 0

\* the calls bot.send_message(chat_id, "\n".join(messages)) being awaited:
\* the chat, the lines, the rows read for the chat and the scan's day.
\* ScanSend puts every call it makes into outbox with these lines.
Sending ==
    {[chat_id |-> scans[k].chats[scans[k].i], lines |-> scans[k].messages,
      read |-> scans[k].read, scan |-> scans[k].today_local] :
        k \in {m \in 1..Len(scans) : scans[m].pc = "send"}}

\* C7: a message has one line per (record, kind) pair of its chat that
\* matches: per record and kind one line if the date matches and none if
\* not, so two lines for a record whose birth and death both match.
C7_OneLinePerMatchingPair ==
    \A c \in Sending :
        /\ Len(c.lines) =
              Cardinality({p \in c.read \X Kinds :
                  is_anniversary_in_days(DateOf(p[1], p[2]), c.scan, DAYS_BEFORE)})
        /\ \A r \in c.read : \A kind \in Kinds :
              Cardinality(LinesAbout(c, r.id, kind)) =
                  IF is_anniversary_in_days(DateOf(r, kind), c.scan, DAYS_BEFORE)
                  THEN 1 ELSE 0

\* C7 witness: a chat with two records, one whose birth and death both
\* match and give two lines, one that matches nothing and gives none
C7_Witness ==
    \E c \in Sending :
        /\ Cardinality(c.read) = 2
        /\ Len(c.lines) = 2
        /\ c.lines[1].pid = c.lines[2].pid
        /\ c.lines[1].kind = "birth"
        /\ c.lines[2].kind = "death"

\* the row a line was built from
RowOf(c, line) == CHOOSE r \in c.read : r.id = line.pid

\* C8 as amended: the count in a line is target.year - original.year with
\* target = scan day + DAYS_BEFORE, and the date shown is the original day
\* and month, except that a February 29 is shown as 28.02 when the target
\* year is not a leap year.  Birth 1990-01-04 scanned on 2024-01-01 gives
\* 04.01 and 34.
C8_CountAndDateShown ==
    \A c \in Sending :
        LET target == AddDays(c.scan, DAYS_BEFORE)
        IN  \A j \in 1..Len(c.lines) :
                LET line == c.lines[j]
                    o == DateOf(RowOf(c, line), line.kind)
                IN  /\ ToOrdinal(target) = ToOrdinal(c.scan) + DAYS_BEFORE
                    /\ line.years = target.year - o.year
                    /\ line.date = IF o.month = 2 /\ o.day = 29 /\ ~IsLeap(target.year)
                                   THEN <<28, 2>> ELSE <<o.day, o.month>>
                    /\ (c.scan = Date(2024, 1, 1) /\ o = Date(1990, 1, 4)) =>
                          line.date = <<4, 1>> /\ line.years = 34

\* C8 witness: the example's line, in the one message of the scan
C8_Witness ==
    \E c \in Sending :
        /\ c.scan = Date(2024, 1, 1)
        /\ outbox = <<>>
        /\ c.lines[1].kind = "birth"
        /\ c.lines[1].date = <<4, 1>>
        /\ c.lines[1].years = 34
        /\ RowOf(c, c.lines[1]).birth = <<1990, 1, 4>>

\* C8 as stated: the date shown is always the original month and day
C8_ShownIsOriginalMonthDay ==
    \A c \in Sending :
        \A j \in 1..Len(c.lines) :
            LET line == c.lines[j]
                o == DateOf(RowOf(c, line), line.kind)
            IN  /\ line.years = AddDays(c.scan, DAYS_BEFORE).year - o.year
                /\ line.date = <<o.day, o.month>>

\* the scans in progress
InProgress == {k \in 1..Len(scans) : scans[k].pc \notin {"done", "failed"}}

\* C9: at most one scan is in progress; a cron time that finds the job
\* still running is skipped.
C9_NoOverlap ==
    /\ Cardinality(InProgress) <= 1
    /\ Len(scans) <= 1

\* C9 witness: yesterday's scan is still awaiting its delivery when the
\* cron time comes, and the firing was skipped
C9_Witness ==
    /\ lastFire.outcome = "skipped"
    /\ phase = "after"
    /\ Len(scans) = 1
    /\ scans[1].pc = "send"
    /\ scans[1].today_local # today

\* what is awaited or was delivered for a chat refers only to rows the chat
\* had when its rows were read, each matching row with all its lines
Consistent(chat_id, lines, read, day) ==
    /\ \A r \in read : r.chat_id = chat_id
    /\ \A j \in 1..Len(lines) : \E r \in read : r.id = lines[j].pid
    /\ \A r \in read : \A kind \in Kinds :
          is_anniversary_in_days(DateOf(r, kind), day, DAYS_BEFORE)
          <=> (\E j \in 1..Len(lines) : lines[j].pid = r.id /\ lines[j].kind = kind)

\* C10: with add and remove commands interleaved at the scan's awaits, a
\* scan fails only by a failed delivery, and every message it is about to
\* deliver or has delivered consists of lines of rows that belonged to the
\* chat when the chat's rows were read, a row being there with all its
\* matching lines or not at all.
C10_ScanNotCorrupted ==
    /\ \A k \in 1..Len(scans) :
          scans[k].pc = "failed" =>
              \E n \in 1..Len(outbox) :
                  /\ outbox[n].scan = scans[k].today_local
                  /\ outbox[n].chat_id = scans[k].chats[scans[k].i]
                  /\ ~outbox[n].ok
    /\ \A c \in Sending : Consistent(c.chat_id, c.lines, c.read, c.scan)

\* C10 witness: a row was removed after it was read; its two lines were
\* delivered all the same, and the scan went on to its end
C10_Witness ==
    /\ Len(scans) = 1
    /\ scans[1].pc = "done"
    /\ scans[1].dirty
    /\ Len(scans[1].chats) = 2
    /\ \E n \in 1..Len(outbox) :
          /\ outbox[n].scan = scans[1].today_local
          /\ outbox[n].chat_id = scans[1].chats[1]
          /\ outbox[n].ok
          /\ Len(outbox[n].lines) = 2
          /\ \A r \in store : r.id # outbox[n].lines[1].pid

----------------------------------------------------------------------------
(* Claims about parse_date (checked under ParseSpec) *)

\* t is the YYYY-MM-DD or the DD.MM.YYYY text of one of the drawn dates
IsDateText(t) == \E d \in ParseDates : t = TextYmd(d) \/ t = TextDmY(d)

\* t is whitespace only, or empty
IsBlank(t) == \A i \in 1..Len(t) : t[i] \in Whitespace

\* C13: parse_date returns None, raising nothing, for an empty or
\* whitespace-only text; for a text that is not blank and is not a date in
\* one of the two forms (2020/01/01, 2021-02-30) an error comes out of the
\* call instead of a None.
C13_MalformedSignalsFormatError ==
    last.op = "parse_date" =>
        /\ IsBlank(last.text) => (last.ret = NoDate /\ ~last.raised)
        /\ last.text \in {<<"2", "0", "2", "0", "/", "0", "1", "/", "0", "1">>,
                          <<"2", "0", "2", "1", "-", "0", "2", "-", "3", "0">>}
              => (last.raised /\ last.ret # NoDate)

\* C18: for every drawn calendar date d, parse_date of its YYYY-MM-DD text
\* and parse_date of its DD.MM.YYYY text, with or without whitespace around
\* them, both return d.
C18_BothFormsSameDate ==
    last.op = "parse_date" =>
        \A d \in ParseDates :
            last.text \in Padded(TextYmd(d)) \cup Padded(TextDmY(d))
                => (last.ret = d /\ ~last.raised)

\* C18 witness: 09.10.2000 between whitespace is read day first, as the
\* date that 2000-10-09 names
C18_Witness ==
    /\ last.op = "parse_date"
    /\ last.text = <<" ", "0", "9", ".", "1", "0", ".", "2", "0", "0", "0", "\n", " ">>
    /\ last.ret = Date(2000, 10, 9)
    /\ parse_date(<<"2", "0", "0", "0", "-", "1", "0", "-", "0", "9">>) = last.ret

----------------------------------------------------------------------------
(* Claims about the command handlers (checked under CmdSpec) *)

\* C11: remove_person returns true exactly when the table held a row with
\* the id that belonged to the chat; then that one row is gone and the
\* rest is as before; for an id never given out, already deleted, or of a
\* row of another chat it returns false and the table is as before.
C11_RemoveIffOwned ==
    (last.op = "remove" /\ last.ret # <<>>) =>
        \A n \in 1..(MaxId + 1) :
            last.text = RemoveText(n) =>
                LET hit == {r \in last.before : r.id = n /\ r.chat_id = last.chat_id}
                IN  /\ last.ret[1] <=> hit # {}
                    /\ ~last.ret[1] => store = last.before
                    /\ last.ret[1] => /\ Cardinality(hit) = 1
                                      /\ store = last.before \ hit

\* C11 witness: a chat asked to remove the row of another chat; false was
\* returned and both rows of the table are still there
C11_Witness ==
    /\ last.op = "remove"
    /\ last.ret = <<FALSE>>
    /\ last.text = RemoveText(1)
    /\ Cardinality(store) = 2
    /\ store = last.before
    /\ \E r \in store : r.id = 1 /\ r.chat_id # last.chat_id

\* C12: the ids add_person has returned are all different, whatever was
\* removed in between; the id returned last is the id of no row of the
\* table as it was, and list_persons of the chat right afterwards has
\* exactly one person with that id.
C12_FreshId ==
    /\ \A i, j \in 1..Len(issued) : i # j => issued[i] # issued[j]
    /\ (last.op = "add" /\ last.ret # <<>>) =>
          LET pid == last.ret[1]
              people == list_persons(store, last.chat_id)
          IN  /\ issued # <<>>
              /\ issued[Len(issued)] = pid
              /\ \A r \in last.before : r.id # pid
              /\ Cardinality({i \in 1..Len(people) : people[i].id = pid}) = 1

\* C12 witness: the only row, which had the highest id, was removed; the
\* next add got the id 2, not 1 again
C12_Witness ==
    /\ last.op = "add"
    /\ last.before = {}
    /\ issued = <<1, 2>>
    /\ last.ret = <<2>>
    /\ \E r \in store : r.id = 2 /\ r.chat_id = last.chat_id

AddNoBirth == <<"/", "a", "d", "d", " ", "A", ";", " ", ";", " ", "2", "0", "0", "1", "-", "0", "1", "-", "0", "4">>
AddNoDeath == <<"/", "a", "d", "d", " ", "A", ";", " ", "1", "9", "9", "0", "-", "0", "1", "-", "0", "4", ";", " ">>
AddNoDates == <<"/", "a", "d", "d", " ", "A", ";", " ", ";", " ">>

\* C14: /add with a name and the birth date left empty, the death date
\* left empty, or both left empty, is accepted: add_person is called and
\* the new row holds NULL for each date left empty and the other date as
\* given.
C14_DatesIndependentlyOptional ==
    (last.op = "add" /\ last.text \in {AddNoBirth, AddNoDeath, AddNoDates}) =>
        /\ last.ret # <<>>
        /\ \E r \in store :
              /\ r.id = last.ret[1]
              /\ (r.birth = NULL) <=> (last.text \in {AddNoBirth, AddNoDates})
              /\ (r.death = NULL) <=> (last.text \in {AddNoDeath, AddNoDates})

\* texts of /add and /remove that are malformed: no payload, fewer than
\* three fields, an empty name, a date that does not parse, no id, an id
\* that is not a number
MalformedTexts ==
    { <<"/", "a", "d", "d">>,
      <<"/", "a", "d", "d", " ">>,
      <<"/", "a", "d", "d", " ", "A", ";", " ", "1", "9", "9", "0", "-", "0", "1", "-", "0", "4">>,
      <<"/", "a", "d", "d", " ", ";", " ", "1", "9", "9", "0", "-", "0", "1", "-", "0", "4", ";", " ", "2", "0", "0", "1", "-", "0", "1", "-", "0", "4">>,
      <<"/", "a", "d", "d", " ", " ", " ", ";", "1", "9", "9", "0", "-", "0", "1", "-", "0", "4", ";", "2", "0", "0", "1", "-", "0", "1", "-", "0", "4">>,
      <<"/", "a", "d", "d", " ", ";", ";">>,
      <<"/", "a", "d", "d", " ", "\n", "\n">>,
      <<"/", "a", "d", "d", " ", "A", ";", " ", "2", "0", "2", "1", "-", "0", "2", "-", "3", "0", ";", " ", "2", "0", "0", "1", "-", "0", "1", "-", "0", "4">>,
      <<"/", "a", "d", "d", " ", "A", ";", " ", "1", "9", "9", "0", "-", "0", "1", "-", "0", "4", ";", " ", "2", "0", "2", "0", "/", "0", "1", "/", "0", "1">>,
      <<"/", "r", "e", "m", "o", "v", "e">>,
      <<"/", "r", "e", "m", "o", "v", "e", " ">>,
      <<"/", "r", "e", "m", "o", "v", "e", " ", "x">>,
      <<"/", "r", "e", "m", "o", "v", "e", " ", "1", " ", "2">>,
      <<"/", "r", "e", "m", "o", "v", "e", " ", "-", "1">>,
      <<"/", "r", "e", "m", "o", "v", "e", " ", "1", ".", "0">>,
      <<"/", "r", "e", "m", "o", "v", "e", " ", "²">> }

\* C15: a malformed /add or /remove text is answered with exactly one
\* error reply, no exception leaves the handler, and the table is as it
\* was.
C15_MalformedOneErrorReply ==
    (last.op \in {"add", "remove"} /\ last.text \in MalformedTexts) =>
        /\ ~last.raised
        /\ Len(last.replies) = 1
        /\ last.replies[1].kind \in {"error", "usage"}
        /\ store = last.before

\* C17: the name of every row of the table is not empty and has no
\* whitespace at its ends.
C17_NameNotEmpty ==
    \A r \in store : r.full_name # <<>> /\ strip(r.full_name) = r.full_name

\* C17 witness: /add with a name of spaces only was answered with an
\* error; the table holds the rows of the adds and the remove before it
C17_Witness ==
    /\ last.op = "add"
    /\ last.text = <<"/", "a", "d", "d", " ", " ", " ", ";", "1", "9", "9", "0", "-", "0", "1", "-", "0", "4", ";", "2", "0", "0", "1", "-", "0", "1", "-", "0", "4">>
    /\ last.replies = <<[kind |-> "error", why |-> "name"]>>
    /\ Cardinality(store) = 1
    /\ issued = <<1, 2>>
    /\ store = last.before

----------------------------------------------------------------------------
(* Claims about the trigger and the scan (checked under TriggerSpec, Spec) *)

\* the trigger is armed: the process runs and no instance of the job does
Armed == up /\ scans = <<>>

\* the trigger is firing: an instance of the job is running or has ended
\* and is about to be released
Firing == up /\ Len(scans) = 1

\* C16: while the process runs the trigger is armed or firing, nothing
\* else; a scan that ended in an error leaves the process running; every
\* firing is followed by a state with no instance left; and a cron time
\* that finds the trigger armed starts a scan, whatever the scans before
\* it ended in.
C16_TriggerStaysArmed ==
    /\ [](up => (Armed \/ Firing))
    /\ [](\A k \in 1..Len(scans) : scans[k].pc = "failed" => up)
    /\ (scans # <<>>) ~> (scans = <<>>)
    /\ [][(CronTime /\ Armed) => (Firing' /\ lastFire'.outcome = "run")]_vars

\* C16 witness: the scan of the first day failed in a delivery, its
\* instance was released, and the process, still running, is armed before
\* the cron time of the next day
C16_Witness ==
    /\ Armed
    /\ phase = "before"
    /\ \E s \in StartDays : today = NextDay(s)
    /\ lastFire.outcome = "run"
    /\ \E n \in 1..Len(outbox) : ~outbox[n].ok

\* the rows the table may hold
PossibleRows ==
    {Row(id, c, a[1], a[2], a[3]) :
        id \in 1..MaxId, c \in Chats,
        a \in {x \in AddInputs : x[1] # "" /\ x[2] # NoDate /\ x[3] # NoDate}}

\* the tables that hold the rows `own` of chat c and any rows of other
\* chats beside them
TablesAround(own, c) ==
    {own \cup X : X \in {Y \in SUBSET {r \in PossibleRows : r.chat_id # c} :
                            \A r1, r2 \in Y \cup own : r1.id = r2.id => r1 = r2}}

\* every line of a message about to be delivered to a chat was built from
\* a row of that chat; the message is what the scan builds from the chat's
\* rows whatever rows of other chats the table holds beside them; and the
\* chats a scan got from all_chat_ids are exactly the chats that have a row
\* (no command having changed the table since the scan began)
IsolatedContent ==
    /\ \A c \in Sending :
          /\ \A j \in 1..Len(c.lines) :
                \E r \in c.read : r.id = c.lines[j].pid /\ r.chat_id = c.chat_id
          /\ \A db \in TablesAround(c.read, c.chat_id) :
                Messages(list_persons(db, c.chat_id), c.scan,
                         AddDays(c.scan, DAYS_BEFORE)) = c.lines
    /\ \A k \in 1..Len(scans) :
          (scans[k].pc # "all_chat_ids" /\ ~scans[k].dirty) =>
              {scans[k].chats[n] : n \in 1..Len(scans[k].chats)}
                  = {r.chat_id : r \in store}

\* C19: the lines of a message for a chat come from rows of that chat, the
\* chats scanned are the chats that have a row, and the message a scan
\* hands to send_message for a chat is the one it would hand over if the
\* table held the rows of that chat alone: whatever the rows of the other
\* chats, an ended scan has made the call for the chat, with those lines.
C19_OwnerIsolation ==
    /\ IsolatedContent
    /\ \A k \in 1..Len(scans) :
          EndedClean(scans[k]) =>
              \A o \in Chats :
                  LET day == scans[k].today_local
                      alone == Messages(list_persons({r \in store : r.chat_id = o}, o),
                                        day, AddDays(day, DAYS_BEFORE))
                  IN  alone # <<>> =>
                          \E n \in CallsTo(o, day) : outbox[n].lines = alone

\* the days of year y
DaysOfYear(y) ==
    {d \in {Date(y, mo, dd) : mo \in 1..12, dd \in 1..31} :
        IsValidDate(d.year, d.month, d.day)}

\* C20: with only scans and /list running, the table stays the table the
\* run began with, rows, ids, names and dates, after delivered and after
\* failed deliveries; /list leaves the table as it found it; and the row
\* of every line handed to send_message is still there and matches again
\* on the scan day one year later.
C20_ScanAndListKeepStore ==
    /\ store = {TriggerRows[i] : i \in 1..seq}
    /\ issued = [i \in 1..seq |-> i]
    /\ last.op = "list" => store = last.before
    /\ \A n \in 1..Len(outbox) :
          \A j \in 1..Len(outbox[n].lines) :
              \E r \in store :
                  /\ r.id = outbox[n].lines[j].pid
                  /\ \E day \in DaysOfYear(outbox[n].scan.year + 1) :
                        /\ ToOrdinal(day) - ToOrdinal(outbox[n].scan) \in {365, 366}
                        /\ is_anniversary_in_days(DateOf(r, outbox[n].lines[j].kind),
                                                  day, DAYS_BEFORE)

\* C20 witness: a scan delivered to one chat and failed for the other, a
\* /list was answered, and the two rows are both there
C20_Witness ==
    /\ Cardinality(store) = 2
    /\ last.op = "list"
    /\ last.replies[1].kind = "list"
    /\ Len(outbox) = 2
    /\ outbox[1].ok
    /\ ~outbox[2].ok
    /\ scans = <<>>

====
